---- MODULE Spec2Model ----
(***************************************************************************)
(* WritePilot demo: the article table (app/db/models.py), the JSON API     *)
(* (app/api/write.py), the form UI (app/ui/web.py) and the text gateway    *)
(* (app/services/openai_client.py).                                        *)
(*                                                                         *)
(* Text is a sequence of one-character strings, so that len() and          *)
(* str.strip() are computed and not assumed.                               *)
(***************************************************************************)
EXTENDS Integers, Sequences, FiniteSets, TLC

\* ------------------------------------------------------------------ bounds
\* longest text the provider returns
MaxTextLen == 2
\* longest article body a client sends in an update
MaxBodyLen == 1
\* largest primary key the store hands out before generate is cut off
MaxId == 2
\* last reading of the clock
MaxClock == 1

\* ------------------------------------------------------- program constants
TitleMaxLength == 200
AudienceMaxLength == 50
ToneMaxLength == 50
HTTP_200_OK == 200
HTTP_303_SEE_OTHER == 303
HTTP_404_NOT_FOUND == 404
HTTP_422_UNPROCESSABLE_ENTITY == 422
HTTP_502_BAD_GATEWAY == 502

\* -------------------------------------------------------------------- text
\* Python's None where a str is expected: a one-element sequence holding a
\* token that is no character, so that it compares with any text.
None == <<"None">>

Space == " "
Alphabet == {Space, "a"}

\* every text of at most n characters
TextsUpTo(n) == UNION {[1..k -> Alphabet] : k \in 0..n}

\* what the provider can answer with; what a client can send as article body
Texts == TextsUpTo(MaxTextLen)
Bodies == TextsUpTo(MaxBodyLen)

\* a text of n characters, none of them whitespace
Long(n) == [i \in 1..n |-> "x"]

DefaultAudience == <<"g", "e", "n", "e", "r", "a", "l">>
DefaultTone == <<"f", "r", "i", "e", "n", "d", "l", "y">>
CasualTone == <<"c", "a", "s", "u", "a", "l">>

\* the values clients send
Titles == {<<"X">>, <<>>}
Audiences == {DefaultAudience, Long(AudienceMaxLength + 1)}
Tones == {DefaultTone, CasualTone}

\* str.lstrip()
RECURSIVE LStrip(_)
LStrip(s) == IF s # <<>> /\ Head(s) = Space THEN LStrip(Tail(s)) ELSE s

\* str.rstrip()
RECURSIVE RStrip(_)
RStrip(s) ==
    IF s # <<>> /\ s[Len(s)] = Space THEN RStrip(SubSeq(s, 1, Len(s) - 1)) ELSE s

\* str.strip()
Strip(s) == RStrip(LStrip(s))

\* `text is None or not str(text).strip()`, with the strip left out
IsBlankNoStrip(text) == text = None \/ text = <<>>

\* `text is None or not str(text).strip()`
IsBlank(text) == text = None \/ Strip(text) = <<>>

\* --------------------------------------------------------- request schemas
\* GenerateRequest: title 1..200, audience <= 50, tone <= 50
GenerateRequestValid(title, audience, tone) ==
    /\ Len(title) >= 1
    /\ Len(title) <= TitleMaxLength
    /\ Len(audience) <= AudienceMaxLength
    /\ Len(tone) <= ToneMaxLength

\* RewriteRequest: tone <= 50
RewriteRequestValid(tone) == Len(tone) <= ToneMaxLength

\* ArticleUpdate: four optional strings, no constraint on any
ArticleUpdates ==
    [title : Titles \cup {None}, audience : Audiences \cup {None},
     tone : Tones \cup {None}, article : Bodies \cup {None}]

\* a required form field, Form(...): an empty value counts as missing
FormRequired(v) == v # <<>>

\* ---------------------------------------------------------------- gateway
\* what the chat-completion call does: raise, or answer with a first choice
\* whose message content is a text or None
ProviderOutcomes ==
    [raised : {TRUE}, content : {None}]
        \cup [raised : {FALSE}, content : Texts \cup {None}]

\* a call's result: the returned value, or the exception
Returned(v) == [ok |-> TRUE, value |-> v]
Raised == [ok |-> FALSE, value |-> None]

\* openai_client._require_non_empty
ClientRequireNonEmpty(text) ==
    IF text = None \/ Strip(text) = <<>> THEN Raised ELSE Returned(Strip(text))

\* generate_article / rewrite_article: `(choice.message.content or "").strip()`
\* and then _require_non_empty
LlmCall(llm) ==
    IF llm.raised THEN Raised
    ELSE ClientRequireNonEmpty(Strip(IF llm.content = None THEN <<>> ELSE llm.content))

generate_article(llm) == LlmCall(llm)
rewrite_article(llm) == LlmCall(llm)

\* ------------------------------------------------------------------ store
\* rows: the articles table, primary key -> row
\* issued: every primary key the table has ever handed out (history)
\* req, resp: the request being answered and its response; before: the
\*   table as that request found it
\* sess: per concurrent rewrite request, its position and its session's
\*   loaded object; commits: the requests that committed, in commit order
\* now: the reading datetime.utcnow() gives; stamps: primary key ->
\*   created_at and updated_at of the row
VARIABLES rows, issued, req, resp, before, sess, commits, now, stamps

vars == <<rows, issued, req, resp, before, sess, commits, now, stamps>>

Fields == {"title", "audience", "tone", "content"}

\* Article(title=..., audience=..., tone=..., content=...)
ArticleSwapped(title, audience, tone, content) ==
    [title |-> title, audience |-> tone, tone |-> audience, content |-> content]

Article(title, audience, tone, content) ==
    [title |-> title, audience |-> audience, tone |-> tone, content |-> content]

Max(S) == CHOOSE m \in S : \A x \in S : x <= m

\* id INTEGER PRIMARY KEY on SQLite, no AUTOINCREMENT keyword (the dialect
\* renders it only for sqlite_autoincrement=True): the new rowid is one more
\* than the largest rowid now in the table
NextId(db) == IF DOMAIN db = {} THEN 1 ELSE Max(DOMAIN db) + 1

\* db.add(row); db.commit()
Insert(db, row) ==
    [i \in DOMAIN db \cup {NextId(db)} |-> IF i \in DOMAIN db THEN db[i] ELSE row]

\* db.delete(a); db.commit(), deleting nothing
DeleteNothing(db, id) == db

\* db.delete(a); db.commit()
Delete(db, id) == [i \in DOMAIN db \ {id} |-> db[i]]

\* db.commit() of a loaded object: the unit of work writes the columns whose
\* value differs from the value the session loaded, and no other column
Flush(db, id, loaded, a) ==
    [db EXCEPT ![id] = [f \in Fields |-> IF a[f] # loaded[f] THEN a[f] ELSE db[id][f]]]

\* created_at and updated_at of a new row: default=datetime.utcnow on each
\* column, two readings of the clock
Created(t1, t2) == [created_at |-> t1, updated_at |-> t2]

\* updated_at of a loaded object at db.commit(): onupdate=datetime.utcnow is
\* part of the UPDATE, and there is an UPDATE when a column was changed
OnUpdate(st, id, loaded, a, t) ==
    IF a # loaded THEN [st EXCEPT ![id].updated_at = t] ELSE st

\* the timestamps after a handler's commit took the table from old to db:
\* the defaults of an inserted row, onupdate of an updated one
Stamp(st, old, db, t1, t2) ==
    [i \in DOMAIN db |->
        IF i \notin DOMAIN old THEN Created(t1, t2)
        ELSE OnUpdate(st, i, old[i], db[i], t1)[i]]

\* the readings a second utcnow() can give after a first one read t
LaterReadings(t) == {u \in {t, t + 1} : u <= MaxClock}

\* _to_article_out
ToArticleOut(id, a) ==
    [id |-> id, title |-> a.title, audience |-> a.audience, tone |-> a.tone,
     article |-> a.content]

\* select(Article).order_by(Article.id), ascending
RECURSIVE OrderByIdAsc(_)
OrderByIdAsc(db) ==
    IF DOMAIN db = {} THEN <<>>
    ELSE LET m == Max(DOMAIN db)
         IN  Append(OrderByIdAsc([i \in DOMAIN db \ {m} |-> db[i]]), ToArticleOut(m, db[m]))

\* select(Article).order_by(Article.id.desc()), each row through _to_article_out
RECURSIVE OrderByIdDesc(_)
OrderByIdDesc(db) ==
    IF DOMAIN db = {} THEN <<>>
    ELSE LET m == Max(DOMAIN db)
         IN  <<ToArticleOut(m, db[m])>> \o OrderByIdDesc([i \in DOMAIN db \ {m} |-> db[i]])

\* _apply_update that overwrites every field, sent or not
ApplyUpdateAll(a, u) ==
    [title |-> u.title, audience |-> u.audience, tone |-> u.tone, content |-> u.article]

\* _apply_update
ApplyUpdate(a, u) ==
    [title |-> IF u.title # None THEN u.title ELSE a.title,
     audience |-> IF u.audience # None THEN u.audience ELSE a.audience,
     tone |-> IF u.tone # None THEN u.tone ELSE a.tone,
     content |-> IF u.article # None THEN u.article ELSE a.content]

\* `a.content = rewritten` without `a.tone = req.tone`
RewriteContentOnly(a, rewritten, tone) == [a EXCEPT !.content = rewritten]

\* `a.content = rewritten; a.tone = req.tone`
ApplyRewrite(a, rewritten, tone) == [a EXCEPT !.content = rewritten, !.tone = tone]

\* api _require_non_empty: 502 on blank text, else the text as it is
ApiRequireNonEmpty(text) == IF IsBlank(text) THEN Raised ELSE Returned(text)

\* ------------------------------------------------------ requests, responses
NoLlm == [raised |-> FALSE, content |-> None]

Request(op, id, title, audience, tone, article, llm) ==
    [op |-> op, id |-> id, title |-> title, audience |-> audience, tone |-> tone,
     article |-> article, llm |-> llm]

NoRequest == Request("idle", 0, None, None, None, None, NoLlm)

\* a redirect target: path, article id (0: none) and ?error= code
Location(path, id, error) == [path |-> path, id |-> id, error |-> error]
NoLocation == Location("", 0, "")

Response(status, detail, location, body) ==
    [status |-> status, detail |-> detail, location |-> location, body |-> body]

NoResponse == Response(0, "", NoLocation, <<>>)

\* a JSON answer / an HTTPException
Json(body) == Response(HTTP_200_OK, "", NoLocation, body)
HTTPException(status, detail) == Response(status, detail, NoLocation, <<>>)

\* ui _redirect
Redirect(path, id, error) ==
    Response(HTTP_303_SEE_OTHER, "", Location(path, id, error), <<>>)

NotFound == HTTPException(HTTP_404_NOT_FOUND, "Article not found")

Ids == 1..MaxId

Idle == req.op = "idle"

\* one request answered: the table after it, the response
Answer(r, db, out) ==
    /\ req' = r
    /\ resp' = out
    /\ rows' = db
    /\ issued' = issued \cup DOMAIN db
    /\ before' = rows
    /\ \E t2 \in (IF DOMAIN db \subseteq DOMAIN rows THEN {now} ELSE LaterReadings(now)) :
          /\ stamps' = Stamp(stamps, rows, db, now, t2)
          /\ now' = t2
    /\ UNCHANGED <<sess, commits>>

\* the two request threads of the concurrent runs
Workers == {1, 2}

NoRow == Article(None, None, None, None)

Session(pc, id, tone, loaded, status, text) ==
    [pc |-> pc, id |-> id, tone |-> tone, loaded |-> loaded, status |-> status,
     text |-> text]

NoSession == Session("start", 0, None, NoRow, 0, None)

Init ==
    /\ rows = <<>>
    /\ issued = {}
    /\ req = NoRequest
    /\ resp = NoResponse
    /\ before = <<>>
    /\ sess = [w \in Workers |-> NoSession]
    /\ commits = <<>>
    /\ now = 0
    /\ stamps = <<>>

\* -------------------------------------------------------------------- API
\* POST /generate
generate(title, audience, tone, llm) ==
    /\ Idle
    /\ GenerateRequestValid(title, audience, tone)
    /\ LET r == Request("generate", 0, title, audience, tone, None, llm)
           got == generate_article(llm)
           text == IF got.ok THEN ApiRequireNonEmpty(got.value) ELSE Raised
       IN  IF ~got.ok
           THEN Answer(r, rows, HTTPException(HTTP_502_BAD_GATEWAY, "LLM generation failed"))
           ELSE IF ~text.ok
           THEN Answer(r, rows, HTTPException(HTTP_502_BAD_GATEWAY,
                                              "LLM generation returned empty content"))
           ELSE /\ NextId(rows) <= MaxId
                /\ Answer(r, Insert(rows, Article(title, audience, tone, text.value)),
                          Json(<<[id |-> NextId(rows), title |-> title,
                                  article |-> text.value]>>))

\* GET /articles
list_articles ==
    /\ Idle
    /\ Answer(Request("list_articles", 0, None, None, None, None, NoLlm), rows,
              Json(OrderByIdDesc(rows)))

\* GET /articles/{article_id}
get_article(id) ==
    /\ Idle
    /\ Answer(Request("get_article", id, None, None, None, None, NoLlm), rows,
              IF id \notin DOMAIN rows THEN NotFound
              ELSE Json(<<ToArticleOut(id, rows[id])>>))

\* the body PUT and PATCH /articles/{article_id} share
UpdateHandler(op, id, u) ==
    /\ Idle
    /\ LET r == Request(op, id, u.title, u.audience, u.tone, u.article, NoLlm)
       IN  IF id \notin DOMAIN rows THEN Answer(r, rows, NotFound)
           ELSE LET a == ApplyUpdate(rows[id], u)
                IN  IF IsBlank(a.content)
                    THEN Answer(r, rows, HTTPException(HTTP_422_UNPROCESSABLE_ENTITY,
                                                       "Article content cannot be empty"))
                    ELSE LET db == Flush(rows, id, rows[id], a)
                         IN  Answer(r, db, Json(<<ToArticleOut(id, db[id])>>))

\* PUT /articles/{article_id}
update_article(id, u) == UpdateHandler("update_article", id, u)

\* PATCH /articles/{article_id}
patch_article(id, u) == UpdateHandler("patch_article", id, u)

\* DELETE /articles/{article_id}
delete_article(id) ==
    /\ Idle
    /\ LET r == Request("delete_article", id, None, None, None, None, NoLlm)
       IN  IF id \notin DOMAIN rows THEN Answer(r, rows, NotFound)
           ELSE Answer(r, Delete(rows, id), Json(<<[deleted |-> TRUE, id |-> id]>>))

\* POST /rewrite/{article_id}
rewrite(id, tone, llm) ==
    /\ Idle
    /\ RewriteRequestValid(tone)
    /\ LET r == Request("rewrite", id, None, None, tone, None, llm)
       IN  IF id \notin DOMAIN rows THEN Answer(r, rows, NotFound)
           ELSE LET got == rewrite_article(llm)
                    text == IF got.ok THEN ApiRequireNonEmpty(got.value) ELSE Raised
                IN  IF ~got.ok
                    THEN Answer(r, rows, HTTPException(HTTP_502_BAD_GATEWAY,
                                                       "LLM rewrite failed"))
                    ELSE IF ~text.ok
                    THEN Answer(r, rows, HTTPException(HTTP_502_BAD_GATEWAY,
                                                       "LLM rewrite returned empty content"))
                    ELSE LET a == ApplyRewrite(rows[id], text.value, tone)
                             db == Flush(rows, id, rows[id], a)
                         IN  Answer(r, db, Json(<<ToArticleOut(id, db[id])>>))

\* --------------------------------------------------------------------- UI
\* POST /ui/generate
ui_generate(title, audience, tone, llm) ==
    /\ Idle
    /\ FormRequired(title)
    /\ LET r == Request("ui_generate", 0, title, audience, tone, None, llm)
           got == generate_article(llm)
       IN  IF ~got.ok THEN Answer(r, rows, Redirect("/ui/new", 0, "llm_failed"))
           ELSE IF IsBlank(got.value)
           THEN Answer(r, rows, Redirect("/ui/new", 0, "llm_failed"))
           ELSE /\ NextId(rows) <= MaxId
                /\ Answer(r, Insert(rows, Article(title, audience, tone, got.value)),
                          Redirect("/ui/articles", NextId(rows), ""))

\* POST /ui/articles/{article_id}/update
ui_update(id, title, audience, tone, content) ==
    /\ Idle
    /\ FormRequired(title) /\ FormRequired(audience)
    /\ FormRequired(tone) /\ FormRequired(content)
    /\ LET r == Request("ui_update", id, title, audience, tone, content, NoLlm)
       IN  IF IsBlank(content)
           THEN Answer(r, rows, Redirect("/ui/articles", id, "empty_content"))
           ELSE IF id \notin DOMAIN rows THEN Answer(r, rows, NotFound)
           ELSE LET a == Article(title, audience, tone, content)
                IN  Answer(r, Flush(rows, id, rows[id], a), Redirect("/ui/articles", id, ""))

\* POST /ui/articles/{article_id}/rewrite
ui_rewrite(id, tone, llm) ==
    /\ Idle
    /\ LET r == Request("ui_rewrite", id, None, None, tone, None, llm)
       IN  IF id \notin DOMAIN rows THEN Answer(r, rows, NotFound)
           ELSE LET got == rewrite_article(llm)
                IN  IF ~got.ok
                    THEN Answer(r, rows, Redirect("/ui/articles", id, "llm_failed"))
                    ELSE IF IsBlank(got.value)
                    THEN Answer(r, rows, Redirect("/ui/articles", id, "llm_failed"))
                    ELSE LET a == ApplyRewrite(rows[id], got.value, tone)
                         IN  Answer(r, Flush(rows, id, rows[id], a),
                                    Redirect("/ui/articles", id, ""))

\* POST /ui/articles/{article_id}/delete
ui_delete(id) ==
    /\ Idle
    /\ LET r == Request("ui_delete", id, None, None, None, None, NoLlm)
       IN  IF id \notin DOMAIN rows THEN Answer(r, rows, NotFound)
           ELSE Answer(r, Delete(rows, id), Redirect("/ui", 0, ""))

\* the response leaves the server; the next request can be taken
Deliver ==
    /\ ~Idle
    /\ req' = NoRequest
    /\ resp' = NoResponse
    /\ before' = rows
    /\ UNCHANGED <<rows, issued, sess, commits, now, stamps>>

\* time passes between two requests
Tick ==
    /\ Idle
    /\ now < MaxClock
    /\ now' = now + 1
    /\ UNCHANGED <<rows, issued, req, resp, before, sess, commits, stamps>>

Next ==
    \/ \E t \in Titles, au \in Audiences, to \in Tones, llm \in ProviderOutcomes :
          generate(t, au, to, llm)
    \/ list_articles
    \/ \E id \in Ids : get_article(id)
    \/ \E id \in Ids, u \in ArticleUpdates : update_article(id, u)
    \/ \E id \in Ids, u \in ArticleUpdates : patch_article(id, u)
    \/ \E id \in Ids : delete_article(id)
    \/ \E id \in Ids, to \in Tones, llm \in ProviderOutcomes : rewrite(id, to, llm)
    \/ \E t \in Titles, au \in Audiences, to \in Tones, llm \in ProviderOutcomes :
          ui_generate(t, au, to, llm)
    \/ \E id \in Ids, t \in Titles, au \in Audiences, to \in Tones, c \in Bodies :
          ui_update(id, t, au, to, c)
    \/ \E id \in Ids, to \in Tones, llm \in ProviderOutcomes : ui_rewrite(id, to, llm)
    \/ \E id \in Ids : ui_delete(id)
    \/ Deliver
    \/ Tick

Spec == Init /\ [][Next]_vars

\* ------------------------------------------------- concurrent rewrites
\* Sync endpoints run on a thread pool, each request with its own session
\* (get_db).  A rewrite reads its article, then blocks in rewrite_article,
\* then commits; the table is touched at the read and at the commit only.

\* the table holds one generated article
RaceInit ==
    /\ \E to \in Tones, c \in {Strip(t) : t \in Texts} \ {<<>>} :
          rows = Insert(<<>>, Article(<<"X">>, DefaultAudience, to, c))
    /\ issued = {1}
    /\ req = NoRequest
    /\ resp = NoResponse
    /\ before = rows
    /\ sess = [w \in Workers |-> NoSession]
    /\ commits = <<>>
    /\ now = 0
    /\ stamps = [i \in {1} |-> Created(0, 0)]

\* rewrite, up to the provider call: _get_article_or_404
rewrite_load(w, id, tone) ==
    /\ sess[w].pc = "start"
    /\ RewriteRequestValid(tone)
    /\ sess' = [sess EXCEPT ![w] =
                  IF id \notin DOMAIN rows
                  THEN Session("done", id, tone, NoRow, HTTP_404_NOT_FOUND, None)
                  ELSE Session("loaded", id, tone, rows[id], 0, None)]
    /\ UNCHANGED <<rows, issued, req, resp, before, commits, now, stamps>>

\* rewrite, from the provider's answer on: the 502s, or the two assignments
\* and db.commit()
rewrite_commit(w, llm) ==
    /\ sess[w].pc = "loaded"
    /\ LET s == sess[w]
           got == rewrite_article(llm)
           text == IF got.ok THEN ApiRequireNonEmpty(got.value) ELSE Raised
       IN  IF ~text.ok
           THEN /\ sess' = [sess EXCEPT ![w] =
                              Session("done", s.id, s.tone, s.loaded,
                                      HTTP_502_BAD_GATEWAY, None)]
                /\ UNCHANGED <<rows, commits, stamps>>
           ELSE /\ rows' = Flush(rows, s.id, s.loaded,
                                 ApplyRewrite(s.loaded, text.value, s.tone))
                /\ commits' = Append(commits, w)
                /\ stamps' = OnUpdate(stamps, s.id, s.loaded,
                                      ApplyRewrite(s.loaded, text.value, s.tone), now)
                /\ sess' = [sess EXCEPT ![w] =
                              Session("done", s.id, s.tone, s.loaded, HTTP_200_OK,
                                      text.value)]
    /\ UNCHANGED <<issued, req, resp, before, now>>

RaceNext ==
    \/ \E w \in Workers, id \in Ids, to \in Tones : rewrite_load(w, id, to)
    \/ \E w \in Workers, llm \in ProviderOutcomes : rewrite_commit(w, llm)

SpecRace == RaceInit /\ [][RaceNext]_vars

\* ----------------------------------------------------------------- claims
\* Vocabulary of the properties, written without the operators of the model.

\* t holds a character that is not whitespace
HasText(t) == t # None /\ \E k \in 1..Len(t) : t[k] # Space

Spaces(n) == [k \in 1..n |-> Space]

\* c is raw without its leading and trailing whitespace
IsTrimOf(c, raw) ==
    /\ c # <<>>
    /\ c[1] # Space
    /\ c[Len(c)] # Space
    /\ \E i \in 0..Len(raw), j \in 0..Len(raw) : raw = Spaces(i) \o c \o Spaces(j)

\* the provider answered, and with text that is not blank
ProviderGaveText(llm) == ~llm.raised /\ HasText(llm.content)

\* every row the request found is still there, as it was
OldRowsKept == \A i \in DOMAIN before : i \in DOMAIN rows /\ rows[i] = before[i]

\* every row but the request's own is as it was, and no row came or went
OnlyOwnRowTouched ==
    /\ DOMAIN rows = DOMAIN before
    /\ \A i \in DOMAIN rows \ {req.id} : rows[i] = before[i]

GenerateOps == {"generate", "ui_generate"}
ApiUpdateOps == {"update_article", "patch_article"}
RewriteOps == {"rewrite", "ui_rewrite"}
DeleteOps == {"delete_article", "ui_delete"}
UiMutatingOps == {"ui_generate", "ui_update", "ui_rewrite", "ui_delete"}

\* the generation failed as the surface reports it: 502 on the API, a
\* redirect with error=llm_failed on the UI
GenerationFailed ==
    IF req.op \in {"generate", "rewrite"}
    THEN resp.status = HTTP_502_BAD_GATEWAY
    ELSE resp.status = HTTP_303_SEE_OTHER /\ resp.location.error = "llm_failed"

\* C1: a generate call (API or UI) adds no row or one row.  When the provider
\* returned non-blank text it adds one row, holding the request's title,
\* audience and tone and the provider's text trimmed; when the provider raised
\* or returned blank text the table is as it was and the call fails with
\* GenerationFailed.
C1_GenerateAddsZeroOrOne ==
    req.op \in GenerateOps =>
        LET new == DOMAIN rows \ DOMAIN before
        IN  /\ OldRowsKept
            /\ Cardinality(new) \in {0, 1}
            /\ ProviderGaveText(req.llm) =>
                  /\ Cardinality(new) = 1
                  /\ \A i \in new :
                        /\ rows[i].title = req.title
                        /\ rows[i].audience = req.audience
                        /\ rows[i].tone = req.tone
                        /\ IsTrimOf(rows[i].content, req.llm.content)
            /\ ~ProviderGaveText(req.llm) => rows = before /\ GenerationFailed

\* C1 witness: the API stored a second article from text the provider padded
C1_Witness ==
    /\ req.op = "generate"
    /\ resp.status = HTTP_200_OK
    /\ req.llm.content = <<Space, "a">>
    /\ req.tone = CasualTone
    /\ DOMAIN rows = {1, 2}
    /\ rows[2].content = <<"a">>

\* C2: no stored article has empty or whitespace-only content, and an update
\* that would leave the content blank is rejected (422 on the API, a redirect
\* with error=empty_content on the UI) with the table as it was, the other
\* fields of the request not stored either.
C2_ContentNeverBlank ==
    /\ \A i \in DOMAIN rows : HasText(rows[i].content)
    /\ (/\ req.op \in ApiUpdateOps
        /\ req.id \in DOMAIN before
        /\ req.article # None
        /\ ~HasText(req.article))
          => resp.status = HTTP_422_UNPROCESSABLE_ENTITY /\ rows = before
    /\ (req.op = "ui_update" /\ ~HasText(req.article))
          => /\ resp.status = HTTP_303_SEE_OTHER
             /\ resp.location.error = "empty_content"
             /\ rows = before

\* C2 witness: a PATCH carrying a whitespace body and a new title was refused
C2_Witness ==
    /\ req.op = "patch_article"
    /\ req.article = <<Space>>
    /\ req.id \in DOMAIN before
    /\ req.title # None
    /\ req.title # before[req.id].title
    /\ resp.status = HTTP_422_UNPROCESSABLE_ENTITY

\* C3: after a successful PUT or PATCH, each field the request left out is as
\* it was, each field it sent has the value sent, and no other article changed.
C3_PartialUpdateFrame ==
    (req.op \in ApiUpdateOps /\ resp.status = HTTP_200_OK) =>
        /\ OnlyOwnRowTouched
        /\ LET a == rows[req.id]
               b == before[req.id]
           IN  /\ a.title = IF req.title = None THEN b.title ELSE req.title
               /\ a.audience = IF req.audience = None THEN b.audience ELSE req.audience
               /\ a.tone = IF req.tone = None THEN b.tone ELSE req.tone
               /\ a.content = IF req.article = None THEN b.content ELSE req.article

\* C3 witness: a PUT of the tone alone, with a second article in the table
C3_Witness ==
    /\ req.op = "update_article"
    /\ resp.status = HTTP_200_OK
    /\ req.title = None /\ req.audience = None /\ req.article = None
    /\ req.tone = CasualTone
    /\ DOMAIN before = {1, 2}
    /\ before[req.id].tone = DefaultTone
    /\ before[req.id].title = <<"X">>

\* C4: a rewrite of an id that is not stored fails with 404 whatever the
\* provider would do; a rewrite of a stored article whose provider returned
\* non-blank text stores that text (trimmed) and the requested tone together
\* and nothing else; one whose provider raised or returned blank text fails
\* with GenerationFailed and leaves the table as it was.
C4_RewriteAllOrNothing ==
    req.op \in RewriteOps =>
        IF req.id \notin DOMAIN before
        THEN resp.status = HTTP_404_NOT_FOUND /\ rows = before
        ELSE IF ProviderGaveText(req.llm)
        THEN /\ OnlyOwnRowTouched
             /\ IsTrimOf(rows[req.id].content, req.llm.content)
             /\ rows[req.id].tone = req.tone
             /\ rows[req.id].title = before[req.id].title
             /\ rows[req.id].audience = before[req.id].audience
             /\ resp.status \in {HTTP_200_OK, HTTP_303_SEE_OTHER}
             /\ resp.location.error = ""
        ELSE rows = before /\ GenerationFailed

\* C4 witness: a rewrite to another tone whose provider answered with blanks
C4_Witness ==
    /\ req.op = "rewrite"
    /\ req.id \in DOMAIN before
    /\ req.tone # before[req.id].tone
    /\ req.llm = [raised |-> FALSE, content |-> <<Space, Space>>]
    /\ resp.status = HTTP_502_BAD_GATEWAY

\* C5: a delete of an id that is not stored fails with 404 and leaves the
\* table as it was; a delete of a stored id removes that article and no other,
\* so that the id is not stored afterwards and the next delete of it is a 404.
C5_DeleteExactlyOne ==
    req.op \in DeleteOps =>
        IF req.id \notin DOMAIN before
        THEN resp.status = HTTP_404_NOT_FOUND /\ rows = before
        ELSE /\ DOMAIN rows = DOMAIN before \ {req.id}
             /\ \A i \in DOMAIN rows : rows[i] = before[i]
             /\ resp.status # HTTP_404_NOT_FOUND

\* C5 witness: of two stored articles one was deleted through the API
C5_Witness ==
    /\ req.op = "delete_article"
    /\ resp.status = HTTP_200_OK
    /\ DOMAIN before = {1, 2}
    /\ Cardinality(DOMAIN rows) = 1

\* C6: GET /articles answers with the stored articles, each once, in strictly
\* decreasing id order, and with the empty list when nothing is stored.
C6_ListNewestFirst ==
    req.op = "list_articles" =>
        LET b == resp.body
        IN  /\ resp.status = HTTP_200_OK
            /\ Len(b) = Cardinality(DOMAIN rows)
            /\ \A k \in 1..Len(b) :
                  /\ b[k].id \in DOMAIN rows
                  /\ b[k].title = rows[b[k].id].title
                  /\ b[k].audience = rows[b[k].id].audience
                  /\ b[k].tone = rows[b[k].id].tone
                  /\ b[k].article = rows[b[k].id].content
            /\ \A k \in 1..(Len(b) - 1) : b[k].id > b[k + 1].id

\* C6 witness: a list of two articles
C6_Witness == req.op = "list_articles" /\ Len(resp.body) = 2

\* C7: every stored article has a title of 1 to 200 characters and an audience
\* and a tone of at most 50 characters each.
C7_FieldLengths ==
    \A i \in DOMAIN rows :
        /\ Len(rows[i].title) >= 1
        /\ Len(rows[i].title) <= TitleMaxLength
        /\ Len(rows[i].audience) <= AudienceMaxLength
        /\ Len(rows[i].tone) <= ToneMaxLength

\* C8: an id given to a new article is greater than every id given out
\* before, those of deleted articles included (an id is never reused).  That
\* ids are unique and that no handler assigns to Article.id is how the table
\* is keyed; the order of the ids handed out is what a step can break.
C8_IdsNeverReused ==
    [][\A n \in DOMAIN rows' \ DOMAIN rows : \A m \in issued : n > m]_vars

\* C9: a mutating UI request that fails (unknown id, blank content, failed
\* generation) is answered with a 303 redirect whose target carries an error
\* code.
C9_UiFailuresRedirect ==
    (/\ req.op \in UiMutatingOps
     /\ \/ req.op # "ui_generate" /\ req.id \notin DOMAIN before
        \/ req.op = "ui_update" /\ ~HasText(req.article)
        \/ req.op \in {"ui_generate", "ui_rewrite"} /\ ~ProviderGaveText(req.llm))
        => resp.status = HTTP_303_SEE_OTHER /\ resp.location.error # ""

\* C10: when two concurrent rewrites of one article have both committed, the
\* stored content and the stored tone are both those of the request that
\* committed last.
C10_LastCommitWins ==
    (\A w \in Workers :
        /\ sess[w].pc = "done"
        /\ sess[w].status = HTTP_200_OK
        /\ sess[w].id = 1)
        => LET last == sess[commits[Len(commits)]]
           IN  rows[1].content = last.text /\ rows[1].tone = last.tone

\* the requests that edit or rewrite a stored article
EditOps == ApiUpdateOps \cup {"ui_update"} \cup RewriteOps

\* C11: created_at is the clock reading at creation and never changes;
\* updated_at starts as that same reading, is the current time after every
\* successful update and every successful rewrite (one that supplies the
\* stored values included), never decreases and is never earlier than
\* created_at; a failed update or rewrite changes neither timestamp.
C11_Timestamps ==
    [][/\ \A i \in DOMAIN stamps' : stamps'[i].updated_at >= stamps'[i].created_at
       /\ \A i \in DOMAIN stamps \cap DOMAIN stamps' :
             /\ stamps'[i].created_at = stamps[i].created_at
             /\ stamps'[i].updated_at >= stamps[i].updated_at
       /\ \A i \in DOMAIN stamps' \ DOMAIN stamps :
             /\ stamps'[i].created_at = now
             /\ stamps'[i].updated_at = stamps'[i].created_at
       /\ req'.op \in EditOps =>
             IF /\ resp'.status \in {HTTP_200_OK, HTTP_303_SEE_OTHER}
                /\ resp'.location.error = ""
             THEN stamps'[req'.id].updated_at = now'
             ELSE stamps' = stamps]_vars

====
